---- MODULE Spec2Model ----
(***************************************************************************)
(* State-machine model of scripts/remote-shutdown/universal-shutdown-      *)
(* server.py: the Flask remote shutdown server of Discord Maid Bot.        *)
(*                                                                         *)
(* State: the global CONFIG dictionary, sys.platform, the configuration    *)
(* file, the countdown threads started by /shutdown and /restart (one      *)
(* record per thread), and the last HTTP response sent.                    *)
(***************************************************************************)
EXTENDS Integers, Sequences, FiniteSets, TLC

VARIABLES
    started,     \* main() has run: CONFIG is final and the server listens
    stopped,     \* app.run was interrupted: main returned, the process is gone
    CONFIG,      \* the global CONFIG dictionary (the keys the handlers read)
    platform,    \* sys.platform
    configFile,  \* content of shutdown-config.json
    jobs,        \* the countdown threads, in the order they were started
    nExec,       \* number of times a thread reached its platform dispatch
    last         \* the last HTTP response sent, with its request

vars == <<started, stopped, CONFIG, platform, configFile, jobs, nExec, last>>

----------------------------------------------------------------------------
(* Bounds of the model.                                                    *)

\* Most countdown threads started in one run.
MaxJobs == 2

\* Most countdown threads started in one run of the specifications that
\* take every route (the threads interleave with every request there).
MaxRouteJobs == 1

\* Largest shutdown_delay a run is started with.
MaxDelay == 2

----------------------------------------------------------------------------
(* Python values.  A value is a tagged tuple, so that None, a string and   *)
(* an integer are comparable and different, as in Python.                  *)

PyNone == <<"None">>

PyStr(s) == <<"str", s>>

PyInt(n) == <<"int", n>>

\* A key that a JSON object or the command line does not carry.
Absent == <<"absent">>

\* Python truthiness of the values the code tests with `if x:` / `if not x:`.
Truthy(v) ==
    /\ v # PyNone
    /\ v # Absent
    /\ v # PyStr("")
    /\ v # PyInt(0)

----------------------------------------------------------------------------
(* Configuration: CONFIG defaults, load_config, the overrides of main.     *)

DefaultApiKey == PyStr("change-this-secret-key")

\* The environment of the process: the two variables CONFIG is built from.
\* A variable that is not set is Absent.
Env(computername, hostname) ==
    [COMPUTERNAME |-> computername, HOSTNAME |-> hostname]

\* Line 40: os.environ.get('COMPUTERNAME', os.environ.get('HOSTNAME', 'Unknown')).
DefaultDevice(env) ==
    IF env.COMPUTERNAME # Absent THEN env.COMPUTERNAME
    ELSE IF env.HOSTNAME # Absent THEN env.HOSTNAME
    ELSE PyStr("Unknown")

DefaultDelay == 5

HiddenMask == PyStr("***hidden***")

DefaultConfig(env) ==
    [api_key |-> DefaultApiKey,
     device_name |-> DefaultDevice(env),
     shutdown_delay |-> DefaultDelay]

\* dict.update for one key: a key the loaded object carries replaces the value.
UpdateKey(cur, loaded) == IF loaded = Absent THEN cur ELSE loaded

\* load_config: CONFIG.update(json.load(f)) when the file exists.
\* A missing file is the object in which every key is Absent.
load_config(cfg, file) ==
    [api_key |-> UpdateKey(cfg.api_key, file.api_key),
     device_name |-> UpdateKey(cfg.device_name, file.device_name),
     shutdown_delay |->
        IF file.shutdown_delay = Absent THEN cfg.shutdown_delay
        ELSE file.shutdown_delay[2]]

\* main, lines 262-270: `if args.x: CONFIG[x] = args.x`.
cli_override(cfg, args) ==
    [api_key |-> IF Truthy(args.api_key) THEN args.api_key ELSE cfg.api_key,
     device_name |->
        IF Truthy(args.device_name) THEN args.device_name ELSE cfg.device_name,
     shutdown_delay |->
        IF Truthy(args.delay) THEN args.delay[2] ELSE cfg.shutdown_delay]

\* The delays a file or a command line sets: none at all, and the largest.
Delays == {0, MaxDelay}

\* Values of sys.platform: the three the code names and one it does not.
Platforms == {"win32", "linux", "darwin", "freebsd"}

SupportedPlatforms == {"win32", "linux", "darwin"}

\* Environments of the server runs: neither variable set (a shell that
\* does not export HOSTNAME), or HOSTNAME set.
Environments == {Env(Absent, Absent), Env(Absent, PyStr("box-7"))}

\* Environments in which COMPUTERNAME is set beside HOSTNAME, HOSTNAME is
\* the empty string, or the host is named as the API key is.
WideEnvironments ==
    {Env(c, h) : c \in {Absent, PyStr("WINPC")},
                 h \in {Absent, PyStr(""), DefaultApiKey}}

\* Configuration files of the server runs: no file, or a file that sets
\* the delay.
FileConfigs ==
    [api_key : {Absent},
     device_name : {Absent},
     shutdown_delay : {Absent} \cup {PyInt(n) : n \in Delays}]

\* Configuration files an operator may also write: api_key JSON null, and
\* a device name that is the same string as the API key.
WideFileConfigs ==
    [api_key : {Absent, PyNone},
     device_name : {Absent, DefaultApiKey},
     shutdown_delay : {Absent} \cup {PyInt(n) : n \in Delays}]

\* Command lines of the server runs (argparse gives None for an option
\* that is not on the command line).
ArgSets ==
    [api_key : {PyNone},
     device_name : {PyNone},
     delay : {PyNone} \cup {PyInt(n) : n \in Delays}]

----------------------------------------------------------------------------
(* Requests.  header and query are None when the request does not carry    *)
(* them; body is <<"notjson">> (request.is_json is false), <<"malformed">> *)
(* (JSON content type, body is not JSON), <<"nonobject">> (JSON that is no *)
(* object) or <<"object", v>> with v what .get('api_key') returns.         *)

NotJson == <<"notjson">>

Malformed == <<"malformed">>

NonObject == <<"nonobject">>

JsonObject(v) == <<"object", v>>

Req(h, q, b) == [header |-> h, query |-> q, body |-> b]

NoCredentialRequest == Req(PyNone, PyNone, NotJson)

\* Requests of the server runs: no credential at all, the default key in
\* the header, the default key in another case in the header.
Requests ==
    {NoCredentialRequest,
     Req(DefaultApiKey, PyNone, NotJson),
     Req(PyStr("Change-This-Secret-Key"), PyNone, NotJson)}

\* require_api_key looking at the query parameter before the header.
ExtractApiKey_query_first(req) ==
    LET k1 == req.query
        k2 == IF ~Truthy(k1) THEN req.header ELSE k1
    IN  IF ~Truthy(k2) /\ req.body # NotJson
        THEN CASE req.body = Malformed -> [err |-> 400, key |-> PyNone]
               [] req.body = NonObject -> [err |-> 500, key |-> PyNone]
               [] OTHER -> [err |-> 0, key |-> req.body[2]]
        ELSE [err |-> 0, key |-> k2]

\* require_api_key, lines 84-92: the value compared with CONFIG['api_key'],
\* or the error get_json() / .get raises.
ExtractApiKey(req) ==
    LET k1 == req.header
        k2 == IF ~Truthy(k1) THEN req.query ELSE k1
    IN  IF ~Truthy(k2) /\ req.body # NotJson
        THEN CASE req.body = Malformed -> [err |-> 400, key |-> PyNone]
               [] req.body = NonObject -> [err |-> 500, key |-> PyNone]
               [] OTHER -> [err |-> 0, key |-> req.body[2]]
        ELSE [err |-> 0, key |-> k2]

\* require_api_key, lines 94-98: 0 when the decorated function is called,
\* else the status code answered instead.
require_api_key(cfg, req) ==
    LET x == ExtractApiKey(req)
    IN  IF x.err # 0 THEN x.err
        ELSE IF x.key # cfg.api_key THEN 401
        ELSE 0

----------------------------------------------------------------------------
(* The platform dispatch of shutdown_system and restart_system.            *)

NoCommand == ""

\* shutdown_system with the darwin branch copied from restart_system.
shutdown_dispatch_darwin_reboots(plat) ==
    CASE plat = "win32" ->
            [cmd |-> "shutdown /s /t 1 /c \"Remote shutdown via Discord Maid Bot\"",
             result |-> "True"]
      [] plat = "linux" -> [cmd |-> "sudo shutdown -h now", result |-> "True"]
      [] plat = "darwin" -> [cmd |-> "sudo shutdown -r now", result |-> "True"]
      [] OTHER -> [cmd |-> NoCommand, result |-> "False"]

\* shutdown_system, lines 113-132: the command handed to os.system and the
\* value returned.
shutdown_dispatch(plat) ==
    CASE plat = "win32" ->
            [cmd |-> "shutdown /s /t 1 /c \"Remote shutdown via Discord Maid Bot\"",
             result |-> "True"]
      [] plat = "linux" -> [cmd |-> "sudo shutdown -h now", result |-> "True"]
      [] plat = "darwin" -> [cmd |-> "sudo shutdown -h now", result |-> "True"]
      [] OTHER -> [cmd |-> NoCommand, result |-> "False"]

\* restart_system without its else branch: any other platform runs the
\* Linux command.
restart_dispatch_no_else(plat) ==
    CASE plat = "win32" ->
            [cmd |-> "shutdown /r /t 1 /c \"Remote restart via Discord Maid Bot\"",
             result |-> "True"]
      [] OTHER -> [cmd |-> "sudo shutdown -r now", result |-> "True"]

\* restart_system, lines 146-165.
restart_dispatch(plat) ==
    CASE plat = "win32" ->
            [cmd |-> "shutdown /r /t 1 /c \"Remote restart via Discord Maid Bot\"",
             result |-> "True"]
      [] plat = "linux" -> [cmd |-> "sudo shutdown -r now", result |-> "True"]
      [] plat = "darwin" -> [cmd |-> "sudo shutdown -r now", result |-> "True"]
      [] OTHER -> [cmd |-> NoCommand, result |-> "False"]

\* range(start, stop, -1) as the sequence of its values.
PyRangeDown(start, stop) ==
    [k \in 1..(IF start > stop THEN start - stop ELSE 0) |-> start - k + 1]

\* The countdown loop written range(delay, -1, -1): it also yields 0.
countdown_range_to_zero(delay) == PyRangeDown(delay, -1)

\* The countdown loops, lines 107 and 140: range(CONFIG['shutdown_delay'], 0, -1).
countdown_range(delay) == PyRangeDown(delay, 0)

\* Both routes handing shutdown_system to threading.Thread.
ThreadTarget_always_shutdown(endpoint) == "shutdown_system"

\* The function a route hands to threading.Thread (lines 176 and 201).
ThreadTarget(endpoint) ==
    IF endpoint = "shutdown" THEN "shutdown_system" ELSE "restart_system"

Dispatch(target, plat) ==
    IF target = "shutdown_system" THEN shutdown_dispatch(plat)
    ELSE restart_dispatch(plat)

----------------------------------------------------------------------------
(* Countdown threads.                                                      *)

NoResponse == [code |-> 0, device |-> PyNone, delay |-> 0]

\* The thread as threading.Thread(target=...).start() leaves it: the
\* countdown loop has not run, the route has not returned its response.
NewJob(endpoint, req, cfg, nActive) ==
    [endpoint |-> endpoint,
     target |-> ThreadTarget(endpoint),
     req |-> req,
     pc |-> "countdown",           \* "countdown", "sleep", "os.system", "done"
     iter |-> countdown_range(cfg.shutdown_delay),  \* values the loop has left
     ticks |-> << >>,              \* the values logged "... in {i} seconds"
     slept |-> 0,                  \* completed time.sleep(1) calls
     cmd |-> NoCommand,            \* the command handed to os.system
     result |-> "running",         \* the thread function's return value
     execs |-> 0,                  \* times the thread ran the dispatch
     exit |-> PyNone,              \* what os.system returned, None if not called
     response |-> NoResponse,      \* the route's response, once returned
     activeAtStart |-> nActive,    \* countdowns running when it was started
     firedBeforeResponse |-> FALSE]

\* A countdown that has been started and has not completed.
Active(job) == job.pc # "done"

ActiveJobs == {j \in DOMAIN jobs : Active(jobs[j])}

----------------------------------------------------------------------------
(* Responses.                                                              *)

NoLast == [endpoint |-> "none", req |-> NoCredentialRequest, code |-> 0,
           body |-> << >>]

Response(endpoint, req, code, body) ==
    [endpoint |-> endpoint, req |-> req, code |-> code, body |-> body]

\* The routes answering with the delay CONFIG is initialised with.
AcceptedBody_default_delay(cfg) ==
    [status |-> "success", device |-> cfg.device_name,
     delay |-> DefaultDelay]

\* The JSON the routes answer with (timestamps left out).
AcceptedBody(cfg) ==
    [status |-> "success", device |-> cfg.device_name,
     delay |-> cfg.shutdown_delay]

StatusBody(cfg, plat) ==
    [status |-> "online", device |-> cfg.device_name, platform |-> plat]

PingBody(cfg) == [pong |-> TRUE, device |-> cfg.device_name]

\* get_config, lines 244-246: a copy of CONFIG with api_key overwritten.
SafeConfig(cfg) == [cfg EXCEPT !.api_key = HiddenMask]

ErrorBody(code) ==
    IF code = 401 THEN [error |-> "Unauthorized"] ELSE [error |-> "error"]

----------------------------------------------------------------------------
(* Actions.                                                                *)

InitWith(files, envs) ==
    /\ started = FALSE
    /\ stopped = FALSE
    /\ \E env \in envs : CONFIG = DefaultConfig(env)
    /\ platform \in Platforms
    /\ configFile \in files
    /\ jobs = << >>
    /\ nExec = 0
    /\ last = NoLast

\* main, lines 257-273: load the file, apply the command line, save.
\* Runs whose delay is above MaxDelay (the default of 5 among them) are
\* left out.
Main(args) ==
    /\ ~started
    /\ ~stopped
    /\ LET cfg == cli_override(load_config(CONFIG, configFile), args)
       IN  /\ cfg.shutdown_delay <= MaxDelay
           /\ CONFIG' = cfg
           /\ configFile' = [api_key |-> cfg.api_key,
                             device_name |-> cfg.device_name,
                             shutdown_delay |-> PyInt(cfg.shutdown_delay)]
    /\ started' = TRUE
    /\ UNCHANGED <<stopped, platform, jobs, nExec, last>>

\* A request to /shutdown or /restart that require_api_key answers itself.
SubmitRejected(endpoint, req) ==
    /\ started
    /\ require_api_key(CONFIG, req) # 0
    /\ last' = Response(endpoint, req, require_api_key(CONFIG, req),
                        ErrorBody(require_api_key(CONFIG, req)))
    /\ UNCHANGED <<started, stopped, CONFIG, platform, configFile, jobs, nExec>>

\* The routes refusing to start a thread once one was started, whether or
\* not it has completed.
SubmitStart_slot_never_reset(endpoint, req) ==
    /\ started
    /\ require_api_key(CONFIG, req) = 0
    /\ jobs = << >>
    /\ jobs' = Append(jobs, NewJob(endpoint, req, CONFIG, Cardinality(ActiveJobs)))
    /\ UNCHANGED <<started, stopped, CONFIG, platform, configFile, nExec, last>>

\* shutdown / restart up to thread.start(), lines 173-178 and 198-203.
SubmitStart(endpoint, req) ==
    /\ started
    /\ require_api_key(CONFIG, req) = 0
    /\ Len(jobs) < MaxJobs
    /\ jobs' = Append(jobs, NewJob(endpoint, req, CONFIG, Cardinality(ActiveJobs)))
    /\ UNCHANGED <<started, stopped, CONFIG, platform, configFile, nExec, last>>

\* shutdown / restart, lines 180-186 and 205-211: the response is returned.
SubmitRespond(j) ==
    /\ j \in DOMAIN jobs
    /\ jobs[j].response = NoResponse
    /\ LET body == AcceptedBody(CONFIG)
       IN  /\ jobs' = [jobs EXCEPT ![j].response =
                          [code |-> 200, device |-> body.device,
                           delay |-> body.delay]]
           /\ last' = Response(jobs[j].endpoint, jobs[j].req, 200, body)
    /\ UNCHANGED <<started, stopped, CONFIG, platform, configFile, nExec>>

\* The countdown loop takes its next value and logs it, lines 107-108 and
\* 140-141; the thread then waits in time.sleep(1).
Tick(j) ==
    /\ j \in DOMAIN jobs
    /\ jobs[j].pc = "countdown"
    /\ jobs[j].iter # << >>
    /\ jobs' = [jobs EXCEPT ![j].ticks = Append(@, Head(jobs[j].iter)),
                            ![j].iter = Tail(@),
                            ![j].pc = "sleep"]
    /\ UNCHANGED <<started, stopped, CONFIG, platform, configFile, nExec, last>>

\* time.sleep(1) returns, lines 109 and 142: back to the head of the loop.
Sleep(j) ==
    /\ j \in DOMAIN jobs
    /\ jobs[j].pc = "sleep"
    /\ jobs' = [jobs EXCEPT ![j].slept = @ + 1,
                            ![j].pc = "countdown"]
    /\ UNCHANGED <<started, stopped, CONFIG, platform, configFile, nExec, last>>

\* The loop is exhausted: the platform dispatch, lines 111-128 and 144-161.
\* On a platform the function names, the command is handed to os.system,
\* which does not return before the command has ended; on another one the
\* function logs and returns False.
Execute(j) ==
    /\ j \in DOMAIN jobs
    /\ jobs[j].pc = "countdown"
    /\ jobs[j].iter = << >>
    /\ LET d == Dispatch(jobs[j].target, platform)
       IN  jobs' = [jobs EXCEPT ![j].pc = IF d.cmd = NoCommand THEN "done"
                                          ELSE "os.system",
                                ![j].cmd = d.cmd,
                                ![j].result = IF d.cmd = NoCommand THEN d.result
                                              ELSE "running",
                                ![j].execs = @ + 1,
                                ![j].firedBeforeResponse =
                                    (jobs[j].response = NoResponse)]
    /\ nExec' = nExec + 1
    /\ UNCHANGED <<started, stopped, CONFIG, platform, configFile, last>>

\* os.system returns the exit status of the command; the functions drop it
\* and return what the dispatch branch returns, lines 129 and 162.
ExecuteExit(j, status) ==
    /\ j \in DOMAIN jobs
    /\ jobs[j].pc = "os.system"
    /\ jobs' = [jobs EXCEPT ![j].pc = "done",
                            ![j].exit = PyInt(status),
                            ![j].result =
                                Dispatch(jobs[j].target, platform).result]
    /\ UNCHANGED <<started, stopped, CONFIG, platform, configFile, nExec, last>>

\* The command ran and exited with status 0.
ExecuteReturn(j) == ExecuteExit(j, 0)

\* A thread that runs the dispatch again after its command failed.
ExecuteFailing_retry(j) ==
    /\ j \in DOMAIN jobs
    /\ jobs[j].pc = "os.system"
    /\ jobs' = [jobs EXCEPT ![j].pc = "countdown",
                            ![j].exit = PyInt(1)]
    /\ UNCHANGED <<started, stopped, CONFIG, platform, configFile, nExec, last>>

\* The command could not be launched or exited with a status other than 0
\* (sudo refuses, shutdown is not permitted).
ExecuteFailing(j) == ExecuteExit(j, 1)

\* app.run is interrupted (Ctrl+C), lines 296-297: main returns and the
\* process exits.  The countdown threads are daemon threads (lines 177 and
\* 202): they end with the process, wherever they are.
Stop ==
    /\ started
    /\ started' = FALSE
    /\ stopped' = TRUE
    /\ jobs' = << >>
    /\ nExec' = 0
    /\ last' = NoLast
    /\ UNCHANGED <<CONFIG, platform, configFile>>

\* status behind @require_api_key, as the routes above it are.
status_behind_api_key ==
    /\ started
    /\ LET code == require_api_key(CONFIG, NoCredentialRequest)
       IN  last' = IF code = 0
                   THEN Response("status", NoCredentialRequest, 200,
                                 StatusBody(CONFIG, platform))
                   ELSE Response("status", NoCredentialRequest, code,
                                 ErrorBody(code))
    /\ UNCHANGED <<started, stopped, CONFIG, platform, configFile, jobs, nExec>>

\* status, lines 218-227: the route reads nothing of the request.
status ==
    /\ started
    /\ last' = Response("status", NoCredentialRequest, 200,
                        StatusBody(CONFIG, platform))
    /\ UNCHANGED <<started, stopped, CONFIG, platform, configFile, jobs, nExec>>

\* ping, lines 230-237: the route reads nothing of the request.
ping ==
    /\ started
    /\ last' = Response("ping", NoCredentialRequest, 200, PingBody(CONFIG))
    /\ UNCHANGED <<started, stopped, CONFIG, platform, configFile, jobs, nExec>>

\* get_config with `safe_config = CONFIG` in place of CONFIG.copy(): the
\* mask is written into CONFIG itself.
get_config_without_copy(req) ==
    /\ started
    /\ LET code == require_api_key(CONFIG, req)
       IN  /\ last' = IF code = 0
                       THEN Response("config", req, 200, SafeConfig(CONFIG))
                       ELSE Response("config", req, code, ErrorBody(code))
           /\ CONFIG' = IF code = 0 THEN SafeConfig(CONFIG) ELSE CONFIG
    /\ UNCHANGED <<started, stopped, platform, configFile, jobs, nExec>>

\* get_config behind require_api_key, lines 240-246.
get_config(req) ==
    /\ started
    /\ LET code == require_api_key(CONFIG, req)
       IN  last' = IF code = 0
                   THEN Response("config", req, 200, SafeConfig(CONFIG))
                   ELSE Response("config", req, code, ErrorBody(code))
    /\ UNCHANGED <<started, stopped, CONFIG, platform, configFile, jobs, nExec>>

SubmitEndpoints == {"shutdown", "restart"}

Next ==
    \/ \E args \in ArgSets : Main(args)
    \/ \E e \in SubmitEndpoints, req \in Requests : SubmitRejected(e, req)
    \/ \E e \in SubmitEndpoints, req \in Requests :
            Len(jobs) < MaxRouteJobs /\ SubmitStart(e, req)
    \/ \E j \in 1..MaxJobs : SubmitRespond(j)
    \/ \E j \in 1..MaxJobs : Tick(j)
    \/ \E j \in 1..MaxJobs : Sleep(j)
    \/ \E j \in 1..MaxJobs : Execute(j)
    \/ \E j \in 1..MaxJobs : ExecuteReturn(j)
    \/ status
    \/ ping
    \/ \E req \in Requests : get_config(req)
    \/ Stop

Init == InitWith(FileConfigs, Environments)

\* The server started from the configuration files of FileConfigs.
Spec == Init /\ [][Next]_vars

InitWide == InitWith(WideFileConfigs, WideEnvironments)

\* The server started from the configuration files of WideFileConfigs.
SpecWide == InitWide /\ [][Next]_vars

\* The steps of the submit routes and of the countdown threads alone: the
\* other routes change nothing but `last`.
NextCountdown ==
    \/ \E args \in ArgSets : Main(args)
    \/ \E e \in SubmitEndpoints, req \in Requests : SubmitStart(e, req)
    \/ \E j \in 1..MaxJobs : SubmitRespond(j)
    \/ \E j \in 1..MaxJobs : Tick(j)
    \/ \E j \in 1..MaxJobs : Sleep(j)
    \/ \E j \in 1..MaxJobs : Execute(j)
    \/ \E j \in 1..MaxJobs : ExecuteReturn(j)
    \/ Stop

\* The submit routes and the countdown threads on every platform.
SpecThreads == Init /\ [][NextCountdown]_vars

\* A process with neither COMPUTERNAME nor HOSTNAME in its environment.
BareEnvironments == {Env(Absent, Absent)}

InitFair ==
    InitWith(FileConfigs, BareEnvironments) /\ platform \in {"darwin", "freebsd"}

\* While the process lives a started thread is scheduled: it logs its
\* ticks, time.sleep(1) returns, and it reaches the dispatch.  Nothing is
\* assumed of os.system returning, nor of the process not being stopped.
FairSpec ==
    /\ InitFair
    /\ [][NextCountdown]_vars
    /\ \A j \in 1..MaxJobs :
          WF_vars(Tick(j)) /\ WF_vars(Sleep(j)) /\ WF_vars(Execute(j))

\* The countdown threads with commands that succeed and commands that
\* fail, and the two open routes beside them.
NextExec ==
    \/ \E args \in ArgSets : Main(args)
    \/ \E e \in SubmitEndpoints, req \in Requests : SubmitStart(e, req)
    \/ \E j \in 1..MaxJobs : SubmitRespond(j)
    \/ \E j \in 1..MaxJobs : Tick(j)
    \/ \E j \in 1..MaxJobs : Sleep(j)
    \/ \E j \in 1..MaxJobs : Execute(j)
    \/ \E j \in 1..MaxJobs : ExecuteReturn(j)
    \/ \E j \in 1..MaxJobs : ExecuteFailing(j)
    \/ status
    \/ ping
    \/ Stop

InitExec ==
    InitWith(FileConfigs, BareEnvironments) /\ platform \in {"linux", "freebsd"}

SpecExec == InitExec /\ [][NextExec]_vars

\* Configuration files that leave the default key or set the string that
\* get_config answers in place of the key.
MaskFileConfigs ==
    [api_key : {Absent, HiddenMask},
     device_name : {Absent},
     shutdown_delay : {Absent} \cup {PyInt(n) : n \in Delays}]

\* Requests carrying the default key or that string in the header.
MaskRequests ==
    {Req(DefaultApiKey, PyNone, NotJson), Req(HiddenMask, PyNone, NotJson)}

InitMask == InitWith(MaskFileConfigs, BareEnvironments) /\ platform = "linux"

\* Every route and the countdown threads, with the requests of MaskRequests.
NextMask ==
    \/ \E args \in ArgSets : Main(args)
    \/ \E e \in SubmitEndpoints, req \in MaskRequests : SubmitRejected(e, req)
    \/ \E e \in SubmitEndpoints, req \in MaskRequests :
            Len(jobs) < MaxRouteJobs /\ SubmitStart(e, req)
    \/ \E j \in 1..MaxJobs : SubmitRespond(j)
    \/ \E j \in 1..MaxJobs : Tick(j)
    \/ \E j \in 1..MaxJobs : Sleep(j)
    \/ \E j \in 1..MaxJobs : Execute(j)
    \/ \E j \in 1..MaxJobs : ExecuteReturn(j)
    \/ status
    \/ ping
    \/ \E req \in MaskRequests : get_config(req)
    \/ Stop

\* The server on Linux started from the configuration files of
\* MaskFileConfigs.
SpecMask == InitMask /\ [][NextMask]_vars

----------------------------------------------------------------------------
(* The authentication alone, over every shape of request.                  *)

OtherApiKey == PyStr("other-key")

\* What a client may put where require_api_key looks: nothing, the empty
\* string, the default key, another key.
CredentialInputs == {PyNone, PyStr(""), DefaultApiKey, OtherApiKey}

\* Bodies: no JSON content type, JSON that does not parse, JSON that is no
\* object, and an object whose .get('api_key') is one of the inputs.
BodyInputs ==
    {NotJson, Malformed, NonObject} \cup {JsonObject(v) : v \in CredentialInputs}

AllRequests ==
    {Req(h, q, b) : h \in CredentialInputs, q \in CredentialInputs,
                    b \in BodyInputs}

\* Configuration files that leave the default key or set the other one.
AuthFileConfigs ==
    [api_key : {Absent, OtherApiKey},
     device_name : {Absent},
     shutdown_delay : {PyInt(0)}]

InitAuth == InitWith(AuthFileConfigs, WideEnvironments) /\ platform = "linux"

\* The requests the server answers without starting a thread.
NextAuth ==
    \/ \E args \in ArgSets : Main(args)
    \/ \E e \in SubmitEndpoints, req \in AllRequests : SubmitRejected(e, req)
    \/ \E req \in AllRequests : get_config(req)
    \/ Stop

\* The server answering requests of every shape on the protected routes.
SpecAuth == InitAuth /\ [][NextAuth]_vars

----------------------------------------------------------------------------
(* Vocabulary of the properties.                                           *)

ProtectedEndpoints == {"shutdown", "restart", "config"}

\* The values a request carries in the header, the query and the body.
CredentialValues(req) ==
    {req.header, req.query} \cup
    (IF req.body[1] = "object" THEN {req.body[2]} ELSE {})

\* A request with no credential in the header, the query or the body.
PresentsNoCredential(req) == CredentialValues(req) \subseteq {PyNone}

\* The credential a request presents: the first non-empty value of header,
\* query, body; None when there is none.
PresentedCredential(req) ==
    IF req.header \notin {PyNone, PyStr("")} THEN req.header
    ELSE IF req.query \notin {PyNone, PyStr("")} THEN req.query
    ELSE IF req.body[1] = "object" /\ req.body[2] \notin {PyNone, PyStr("")}
         THEN req.body[2]
    ELSE PyNone

\* A request whose credential is missing or is not the configured one.
InvalidOrMissing(req) ==
    \/ PresentedCredential(req) = PyNone
    \/ PresentedCredential(req) # CONFIG.api_key

\* The power action a route stands for, and the one a thread function runs.
RequestedAction(endpoint) ==
    IF endpoint = "shutdown" THEN "Shutdown" ELSE "Restart"

ExecutedAction(target) ==
    IF target = "shutdown_system" THEN "Shutdown" ELSE "Restart"

\* The delay every countdown of the run is started with.
Delay == CONFIG.shutdown_delay

----------------------------------------------------------------------------
(* C1: at most one countdown (started, not yet completed) is active in     *)
(* every reachable state.  The routes start a thread per accepted request  *)
(* and keep no record of running countdowns: the property fails.           *)
C1_AtMostOneActiveJob == Cardinality(ActiveJobs) <= 1

(* C2: a submit accepted by the authentication while an earlier countdown  *)
(* is still active is answered Busy (409), not Accepted, and starts no     *)
(* countdown of its own.  The routes answer 200 and start one: fails.      *)
C2_SubmitWhileActiveIsBusy ==
    \A j \in DOMAIN jobs :
        (jobs[j].activeAtStart > 0 /\ jobs[j].response # NoResponse)
            => jobs[j].response.code = 409

(* C3: a request to a protected route is authorized if and only if the     *)
(* credential it presents equals the configured one, and a request with no *)
(* credential in header, query or body is never authorized.  Fails when    *)
(* the configuration file sets api_key to null.                            *)
C3_AuthorizedIffExactCredential ==
    last.endpoint \in ProtectedEndpoints =>
        /\ (last.code = 200) <=> (PresentedCredential(last.req) = CONFIG.api_key)
        /\ PresentsNoCredential(last.req) => last.code # 200

(* C4: a shutdown or restart request with an invalid or missing credential *)
(* is answered Unauthorized and starts no countdown thread, so no executor *)
(* invocation stems from it.  Fails with C3: with api_key null the request *)
(* without credential passes require_api_key.                              *)
C4_UnauthorizedStartsNothing ==
    /\ \A j \in DOMAIN jobs : ~InvalidOrMissing(jobs[j].req)
    /\ (last.endpoint \in SubmitEndpoints /\ InvalidOrMissing(last.req))
          => last.code = 401
    /\ nExec <= Cardinality({j \in DOMAIN jobs : ~InvalidOrMissing(jobs[j].req)})

(* C5 as stated: on a supported platform every accepted submit, for every  *)
(* delay >= 0 (0 included), eventually has the platform dispatch run       *)
(* exactly once, with the action of the route that accepted it; no thread  *)
(* runs it twice and the invocations never outnumber the accepted submits. *)
(* The countdown is a daemon thread: when the server is stopped before the *)
(* countdown ends, the dispatch never runs.                                *)
C5_ExecutedExactlyOnce ==
    /\ [](/\ nExec <= Len(jobs)
          /\ \A j \in DOMAIN jobs : jobs[j].execs <= 1)
    /\ \A j \in 1..MaxJobs :
          [](  (j \in DOMAIN jobs /\ platform \in SupportedPlatforms)
            => <>(/\ j \in DOMAIN jobs
                  /\ jobs[j].execs = 1
                  /\ jobs[j].cmd # NoCommand
                  /\ ExecutedAction(jobs[j].target)
                        = RequestedAction(jobs[j].endpoint)))

(* C5, amended: on a supported platform every accepted submit, for every   *)
(* delay >= 0 (0 included), eventually has the platform dispatch run       *)
(* exactly once, with the action of the route that accepted it, unless the *)
(* server process is stopped first; no thread runs it twice and the        *)
(* invocations never outnumber the accepted submits.                       *)
C5_ExecutedExactlyOnceUnlessStopped ==
    /\ [](/\ nExec <= Len(jobs)
          /\ \A j \in DOMAIN jobs : jobs[j].execs <= 1)
    /\ \A j \in 1..MaxJobs :
          [](  (j \in DOMAIN jobs /\ platform \in SupportedPlatforms)
            => <>(\/ stopped
                  \/ /\ j \in DOMAIN jobs
                     /\ jobs[j].execs = 1
                     /\ jobs[j].cmd # NoCommand
                     /\ ExecutedAction(jobs[j].target)
                           = RequestedAction(jobs[j].endpoint)))

\* A restart accepted with delay 0 on a supported platform has executed.
C5_Witness ==
    \E j \in DOMAIN jobs :
        /\ Delay = 0
        /\ platform \in SupportedPlatforms
        /\ jobs[j].endpoint = "restart"
        /\ jobs[j].execs = 1
        /\ jobs[j].cmd = "sudo shutdown -r now"

(* C6 as stated: the ticks of a countdown run from the delay down to 0     *)
(* inclusive.  The loop is range(delay, 0, -1): it never yields 0.         *)
C6_TicksDownToZero ==
    \A j \in DOMAIN jobs :
        jobs[j].pc = "done" => jobs[j].ticks = PyRangeDown(Delay, -1)

(* C6 amended: the ticks of a countdown are the strictly decreasing values *)
(* delay, delay-1, ..., 1 (none for delay 0), each followed by one         *)
(* time.sleep(1) that returns before the next tick or the dispatch, and    *)
(* the platform dispatch runs only after all of them.                      *)
C6_TicksDownToOne ==
    \A j \in DOMAIN jobs :
        /\ Len(jobs[j].ticks) <= Delay
        /\ \A k \in 1..Len(jobs[j].ticks) : jobs[j].ticks[k] = Delay - k + 1
        /\ jobs[j].slept = Len(jobs[j].ticks)
                            - (IF jobs[j].pc = "sleep" THEN 1 ELSE 0)
        /\ jobs[j].execs > 0 =>
              /\ Len(jobs[j].ticks) = Delay
              /\ jobs[j].slept = Delay

\* A countdown of two seconds has ticked 2, 1 and then executed.
C6_Witness ==
    \E j \in DOMAIN jobs :
        /\ Delay >= 2
        /\ jobs[j].execs = 1
        /\ Len(jobs[j].ticks) = Delay
        /\ jobs[j].ticks[1] = Delay
        /\ jobs[j].ticks[Delay] = 1

(* C7: the Accepted response of a submit is returned before the platform   *)
(* dispatch of its countdown runs.  The thread is started before the route *)
(* returns and, with delay 0, runs the dispatch at once: fails.            *)
C7_ResponseBeforeExecution ==
    \A j \in DOMAIN jobs : ~jobs[j].firedBeforeResponse

(* C8: the body of an authorized /config response carries the configured   *)
(* credential string in no field.  Only the api_key field is overwritten:  *)
(* fails when another field holds the same string.                         *)
C8_ConfigOutputHidesCredential ==
    (last.endpoint = "config" /\ last.code = 200 /\ CONFIG.api_key[1] = "str")
        => /\ last.body.api_key # CONFIG.api_key
           /\ last.body.device_name # CONFIG.api_key

(* C9: /status and /ping are answered 200 without any credential in every  *)
(* state, countdowns active or not, and change neither the countdown       *)
(* threads nor the configuration.                                          *)
C9_StatusPingOpenAndFrame ==
    /\ [](started => (ENABLED status /\ ENABLED ping))
    /\ [][ (last' # last /\ last'.endpoint \in {"status", "ping"})
              => /\ last'.code = 200
                 /\ PresentsNoCredential(last'.req)
                 /\ UNCHANGED <<jobs, nExec, CONFIG, configFile, platform, started, stopped>>
         ]_vars

\* /status answered 200 to a request without credential while a
\* countdown is active.
C9_Witness ==
    /\ last.endpoint = "status"
    /\ last.code = 200
    /\ PresentsNoCredential(last.req)
    /\ Cardinality(ActiveJobs) >= 1

(* C10: on a platform that is none of win32, linux, darwin the dispatch    *)
(* returns failure and hands no command to os.system, for shutdown and for *)
(* restart.                                                                *)
C10_UnsupportedPlatformSpawnsNothing ==
    \A j \in DOMAIN jobs :
        (platform \notin SupportedPlatforms /\ jobs[j].execs > 0)
            => /\ jobs[j].result = "False"
               /\ jobs[j].cmd = NoCommand

\* On freebsd a shutdown and a restart have both run their dispatch.
C10_Witness ==
    /\ platform = "freebsd"
    /\ \E j, k \in DOMAIN jobs :
          /\ jobs[j].target = "shutdown_system" /\ jobs[j].pc = "done"
          /\ jobs[k].target = "restart_system" /\ jobs[k].pc = "done"

(* C11: the credential a request presents is the first non-empty value of  *)
(* the header, the query parameter and the JSON body field, in that order: *)
(* whenever one of them is non-empty, the first such value alone decides   *)
(* between 200 and 401, whatever the later locations hold (another key, a  *)
(* body that is not JSON, a body that is no object).                       *)
C11_FirstNonEmptyDecides ==
    last.endpoint \in ProtectedEndpoints =>
        LET p == PresentedCredential(last.req)
        IN  p # PyNone =>
                last.code = IF p = CONFIG.api_key THEN 200 ELSE 401

\* An empty header is passed over, the query parameter decides, and the
\* body field, which carries another key, is not looked at.
C11_Witness ==
    /\ last.endpoint = "config"
    /\ last.req = Req(PyStr(""), DefaultApiKey, JsonObject(OtherApiKey))
    /\ CONFIG.api_key = DefaultApiKey
    /\ last.code = 200

(* C13: a submit with the valid credential made while no countdown is      *)
(* active is answered 200 with the configured device name and the          *)
(* configured delay, and the delay it reports is the number of seconds     *)
(* (time.sleep(1) calls, one per tick) its countdown lasts before the      *)
(* platform dispatch.                                                      *)
C13_AcceptedReportsCountdownDelay ==
    \A j \in DOMAIN jobs :
        (jobs[j].activeAtStart = 0 /\ jobs[j].response # NoResponse) =>
            /\ jobs[j].response.code = 200
            /\ jobs[j].response.device = CONFIG.device_name
            /\ jobs[j].response.delay = CONFIG.shutdown_delay
            /\ jobs[j].slept + Len(jobs[j].iter)
                    + (IF jobs[j].pc = "sleep" THEN 1 ELSE 0)
                  = jobs[j].response.delay
            /\ jobs[j].execs > 0 =>
                    /\ jobs[j].slept = jobs[j].response.delay
                    /\ Len(jobs[j].ticks) = jobs[j].response.delay

\* A submit made with nothing active was answered with the largest delay
\* and its thread slept that many seconds before the dispatch.
C13_Witness ==
    \E j \in DOMAIN jobs :
        /\ jobs[j].activeAtStart = 0
        /\ jobs[j].response.code = 200
        /\ jobs[j].response.delay = MaxDelay
        /\ jobs[j].pc = "done"
        /\ jobs[j].slept = MaxDelay

(* C14: on a supported platform, a thread whose command could not be       *)
(* launched or exited with a status other than 0 returns failure (False),  *)
(* and a thread returns success (True) only when its command exited with   *)
(* status 0.  The functions drop what os.system returns: the property      *)
(* fails.                                                                  *)
C14_FailedCommandReportsFailure ==
    \A j \in DOMAIN jobs :
        (jobs[j].pc = "done" /\ platform \in SupportedPlatforms) =>
            (jobs[j].result = "True" <=> jobs[j].exit = PyInt(0))

(* C15: a thread runs the platform dispatch at most once and so hands at   *)
(* most one command to os.system; once it has run the dispatch, whether    *)
(* the command failed or not, the thread is over: no later step runs the   *)
(* dispatch for it again or changes its command, exit status or result     *)
(* (until the process is stopped and the threads are gone).                *)
C15_FailureIsTerminal ==
    /\ [](\A j \in DOMAIN jobs : jobs[j].execs <= 1)
    /\ [](nExec <= Len(jobs))
    /\ [][stopped' \/ \A j \in DOMAIN jobs :
            jobs[j].pc = "done" =>
                /\ j \in DOMAIN jobs'
                /\ jobs'[j].pc = "done"
                /\ jobs'[j].execs = jobs[j].execs
                /\ jobs'[j].cmd = jobs[j].cmd
                /\ jobs'[j].exit = jobs[j].exit
                /\ jobs'[j].result = jobs[j].result
            /\ nExec' <= nExec + 1]_vars

\* The first thread's command failed; the server went on, a second thread
\* ran its own dispatch, and the failed one was dispatched once only.
C15_Witness ==
    /\ Len(jobs) = 2
    /\ jobs[1].pc = "done"
    /\ jobs[1].exit = PyInt(1)
    /\ jobs[1].execs = 1
    /\ jobs[2].pc = "done"
    /\ nExec = 2
    /\ last.endpoint = "status"

\* A request to a submit route carrying the configured key in the header.
ValidRequest == Req(CONFIG.api_key, PyNone, NotJson)

(* C16: once a thread has completed, whatever its dispatch came to (the    *)
(* command succeeded, the command failed, the platform is unsupported),    *)
(* the server still answers: status and ping can be answered, a submit     *)
(* with the valid credential can start a new countdown (as long as the     *)
(* model's MaxJobs allows one more thread), and a submit made after the    *)
(* earlier threads completed is answered 200.                              *)
C16_AvailableAfterCompletion ==
    (\E j \in DOMAIN jobs : jobs[j].pc = "done") =>
        /\ ENABLED status
        /\ ENABLED ping
        /\ Len(jobs) < MaxJobs =>
                \A e \in SubmitEndpoints : ENABLED SubmitStart(e, ValidRequest)
        /\ \A k \in DOMAIN jobs :
                (k > 1 /\ jobs[k].activeAtStart = 0
                       /\ jobs[k].response # NoResponse) =>
                    jobs[k].response.code = 200

\* The first thread's command failed, a submit made after it was answered
\* 200 and started a second countdown, and ping was answered after that.
C16_Witness ==
    /\ Len(jobs) = 2
    /\ jobs[1].pc = "done"
    /\ jobs[1].exit = PyInt(1)
    /\ jobs[2].activeAtStart = 0
    /\ jobs[2].response.code = 200
    /\ last.endpoint = "ping"

\* The option by which the platform's shutdown program powers off or
\* reboots: shutdown.exe /s and /r, shutdown(8) -h and -r.
PowerOption(action, plat) ==
    IF plat = "win32"
    THEN (IF action = "Shutdown" THEN "/s" ELSE "/r")
    ELSE (IF action = "Shutdown" THEN "-h" ELSE "-r")

\* The command line that performs an action at once on a platform.
NativeCommand(action, plat) ==
    IF plat = "win32"
    THEN "shutdown " \o PowerOption(action, plat) \o " /t 1 /c \"Remote "
            \o (IF action = "Shutdown" THEN "shutdown" ELSE "restart")
            \o " via Discord Maid Bot\""
    ELSE "sudo shutdown " \o PowerOption(action, plat) \o " now"

OtherAction(action) == IF action = "Shutdown" THEN "Restart" ELSE "Shutdown"

(* C17: on win32, linux and darwin the command a thread hands to os.system *)
(* is the native command of the action its route stands for: /shutdown     *)
(* issues the power-off command of the platform and never its reboot       *)
(* command, /restart issues the reboot command and never the power-off     *)
(* command.                                                                *)
C17_CommandMatchesAction ==
    \A j \in DOMAIN jobs :
        (jobs[j].execs > 0 /\ platform \in SupportedPlatforms) =>
            LET action == RequestedAction(jobs[j].endpoint)
            IN  /\ jobs[j].cmd = NativeCommand(action, platform)
                /\ jobs[j].cmd # NativeCommand(OtherAction(action), platform)

\* On macOS one thread of /shutdown and one of /restart have both issued
\* their command.
C17_Witness ==
    /\ platform = "darwin"
    /\ Len(jobs) = 2
    /\ jobs[1].endpoint = "shutdown" /\ jobs[1].cmd = "sudo shutdown -h now"
    /\ jobs[2].endpoint = "restart" /\ jobs[2].cmd = "sudo shutdown -r now"

\* CONFIG holds what main saved at startup.
ConfigAsSaved ==
    /\ CONFIG.api_key = configFile.api_key
    /\ CONFIG.device_name = configFile.device_name
    /\ PyInt(CONFIG.shutdown_delay) = configFile.shutdown_delay

\* A request carrying a value in the X-API-Key header and nothing else.
HeaderRequest(v) == Req(v, PyNone, NotJson)

(* C18 as stated: after startup no route and no countdown thread changes   *)
(* the configured key, delay or device name; after any number of           *)
(* get_config calls the key saved at startup still authenticates and the   *)
(* string get_config answers in its place, ***hidden***, does not.  The    *)
(* last part fails when the configured key is that string.                 *)
C18_ConfigReadOnlyMaskRejected ==
    started =>
        /\ ConfigAsSaved
        /\ require_api_key(CONFIG, HeaderRequest(configFile.api_key)) = 0
        /\ require_api_key(CONFIG, HeaderRequest(HiddenMask)) = 401

(* C18, amended: after startup no route and no countdown thread changes    *)
(* the configured key, delay or device name; after any number of           *)
(* get_config calls the key saved at startup still authenticates, and      *)
(* ***hidden*** does not unless it is the configured key itself.           *)
C18_ConfigReadOnlyMaskNotInstalled ==
    started =>
        /\ ConfigAsSaved
        /\ require_api_key(CONFIG, HeaderRequest(configFile.api_key)) = 0
        /\ configFile.api_key # HiddenMask =>
                require_api_key(CONFIG, HeaderRequest(HiddenMask)) = 401

\* get_config has answered the masked configuration to the default key,
\* a countdown has run to its dispatch, and the placeholder was refused
\* after that.
C18_Witness ==
    /\ CONFIG.api_key = DefaultApiKey
    /\ \E j \in DOMAIN jobs : jobs[j].pc = "done"
    /\ last.endpoint = "config"
    /\ last.req = HeaderRequest(HiddenMask)
    /\ last.code = 401

(* C19: a request to /shutdown, /restart or /config that does not carry    *)
(* the configured key is answered 401 with the body {"error":              *)
(* "Unauthorized"}, whatever its body is: none, not JSON, a JSON object    *)
(* without the field, JSON that is no object.  A JSON content type with a  *)
(* body that does not parse is answered 400 and JSON that is no object     *)
(* raises in the decorator (500): the property fails.                      *)
C19_InvalidAlwaysUnauthorized ==
    (last.endpoint \in ProtectedEndpoints /\ InvalidOrMissing(last.req)) =>
        /\ last.code = 401
        /\ last.body = [error |-> "Unauthorized"]

(* C20: when main applies a command line that sets --delay, the delay of   *)
(* the run is the command-line value, for every non-negative value, 0      *)
(* among them, whatever the configuration file sets.  main tests           *)
(* `if args.delay:` and so passes over --delay 0: the property fails.      *)
C20_CliDelayOverrides ==
    [][\A args \in ArgSets :
            (args.delay # PyNone /\ Main(args)) =>
                CONFIG'.shutdown_delay = args.delay[2]]_vars

====
